---- MODULE Spec2Model ----
(***************************************************************************)
(* A model of normalize.py: the field normalizers, the row pipeline        *)
(* clean_and_normalize_row and the file loop read_and_clean_file.          *)
(*                                                                         *)
(* Text is a sequence of one-character strings.  A Python call that may    *)
(* raise returns Ok(v) or Raise(exc, what, arg).  Python integers are      *)
(* unbounded, so they are kept as signed decimal digit sequences; a float  *)
(* is kept as an exact signed decimal (binary rounding of doubles is not   *)
(* modelled, the range of a double is).                                    *)
(***************************************************************************)
EXTENDS Integers, Sequences, FiniteSets, TLC

VARIABLES
    pc,      \* where read_and_clean_file is: "start", "rows", "done", "crashed"
    header,  \* the header row read from the input (<<>> before it is read)
    stdout,  \* the lines printed to standard output, in order
    stderr,  \* the lines printed to standard error, in order
    exc,     \* the exception that ended the run ("" while none has)
    log,     \* one entry per data row handed to clean_and_normalize_row
    call     \* the last direct call of a normalizer: function, argument, result

vars == <<pc, header, stdout, stderr, exc, log, call>>

----------------------------------------------------------------------------
(* Text *)

Digits == <<"0", "1", "2", "3", "4", "5", "6", "7", "8", "9">>

IsDigit(c) == \E i \in 1..10 : Digits[i] = c

DigitVal(c) == (CHOOSE i \in 1..10 : Digits[i] = c) - 1

DigitChar(d) == Digits[d + 1]

IsSpace(c) == c = " "

Upper(c) == CASE c = "a" -> "A"
              [] c = "b" -> "B"
              [] c = "m" -> "M"
              [] c = "p" -> "P"
              [] c = "x" -> "X"
              [] OTHER -> c

Contains(s, c) == \E i \in 1..Len(s) : s[i] = c

AllDigits(s) == \A i \in 1..Len(s) : IsDigit(s[i])

Repeat(c, n) == [i \in 1..n |-> c]

\* str.strip(): leading and trailing whitespace removed
Strip(s) ==
    LET keep == {i \in 1..Len(s) : ~IsSpace(s[i])}
    IN  IF keep = {} THEN <<>>
        ELSE LET lo == CHOOSE i \in keep : \A j \in keep : i <= j
                 hi == CHOOSE i \in keep : \A j \in keep : j <= i
             IN  SubSeq(s, lo, hi)

\* str.split(sep) with a one-character separator: always at least one part
Split(s, sep) ==
    LET cuts == {i \in 1..Len(s) : s[i] = sep}
        n    == Cardinality(cuts)
        \* position of the k-th separator; 0 before the first, Len(s)+1 after the last
        at(k) == IF k = 0 THEN 0
                 ELSE IF k = n + 1 THEN Len(s) + 1
                 ELSE CHOOSE i \in cuts : Cardinality({j \in cuts : j < i}) = k - 1
    IN  [k \in 1..(n + 1) |-> SubSeq(s, at(k - 1) + 1, at(k) - 1)]

RECURSIVE Join(_, _)
\* sep.join(parts)
Join(sep, parts) ==
    IF parts = <<>> THEN <<>>
    ELSE IF Len(parts) = 1 THEN parts[1]
    ELSE parts[1] \o sep \o Join(sep, Tail(parts))

----------------------------------------------------------------------------
(* Outcomes of a call *)

Ok(v) == [t |-> "ok", v |-> v]

Raise(e, what, arg) == [t |-> "raise", exc |-> e, what |-> what, arg |-> arg]

IsOk(r) == r.t = "ok"

----------------------------------------------------------------------------
(* Unbounded naturals as big-endian digit sequences without leading zeros  *)
(* (zero is the empty sequence)                                            *)

NatNorm(a) ==
    LET nz == {i \in 1..Len(a) : a[i] # 0}
    IN  IF nz = {} THEN <<>>
        ELSE SubSeq(a, CHOOSE i \in nz : \A j \in nz : i <= j, Len(a))

\* -1, 0, 1 as a < b, a = b, a > b (both normalised)
NatCmp(a, b) ==
    IF Len(a) # Len(b) THEN (IF Len(a) < Len(b) THEN -1 ELSE 1)
    ELSE LET diff == {i \in 1..Len(a) : a[i] # b[i]}
         IN  IF diff = {} THEN 0
             ELSE LET i == CHOOSE k \in diff : \A j \in diff : k <= j
                  IN  IF a[i] < b[i] THEN -1 ELSE 1

\* Arithmetic is done on limbs of four digits, least significant first, with
\* the carries looked ahead rather than rippled.
ToLimbs(a) ==
    LET L    == Len(a)
        d(i) == IF i >= 1 THEN a[i] ELSE 0
    IN  [t \in 1..((L + 3) \div 4) |->
            LET hi == L - 4 * (t - 1)
            IN  d(hi) + 10 * d(hi - 1) + 100 * d(hi - 2) + 1000 * d(hi - 3)]

FromLimbs(x) ==
    NatNorm([i \in 1..(4 * Len(x)) |->
                LET r == 4 * Len(x) - i
                IN  (x[(r \div 4) + 1] \div (10 ^ (r % 4))) % 10])

LimbAt(x, t) == IF t <= Len(x) THEN x[t] ELSE 0

LimbAdd(x, y) ==
    LET m    == IF Len(x) >= Len(y) THEN Len(x) ELSE Len(y)
        s    == [t \in 1..m |-> LimbAt(x, t) + LimbAt(y, t)]
        \* the carry into limb t: a lower limb overflows and all between are full
        c(t) == IF \E j \in 1..(t - 1) :
                     s[j] >= 10000 /\ \A l \in (j + 1)..(t - 1) : s[l] = 9999
                THEN 1 ELSE 0
    IN  [t \in 1..(m + 1) |-> IF t <= m THEN (s[t] + c(t)) % 10000 ELSE c(t)]

\* x - y for x >= y
LimbSub(x, y) ==
    LET d    == [t \in 1..Len(x) |-> x[t] - LimbAt(y, t)]
        \* the borrow from limb t: a lower limb is short and all between are zero
        b(t) == IF \E j \in 1..(t - 1) :
                     d[j] < 0 /\ \A l \in (j + 1)..(t - 1) : d[l] = 0
                THEN 1 ELSE 0
    IN  [t \in 1..Len(x) |-> (d[t] - b(t) + 10000) % 10000]

NatAdd(a, b) == FromLimbs(LimbAdd(ToLimbs(a), ToLimbs(b)))

\* a - b for a >= b
NatSub(a, b) == FromLimbs(LimbSub(ToLimbs(a), ToLimbs(b)))

\* x * k for 0 <= k < 10000: the low and the high halves of the limb products
LimbMul(x, k) ==
    LimbAdd([t \in 1..Len(x) |-> (x[t] * k) % 10000],
            <<0>> \o [t \in 1..Len(x) |-> (x[t] * k) \div 10000])

NatMul(a, k) == FromLimbs(LimbMul(ToLimbs(a), k))

\* signed integers: [neg, mag], zero never negative
Signed(neg, mag) == [neg |-> neg /\ mag # <<>>, mag |-> mag]

SignedAdd(x, y) ==
    IF x.neg = y.neg THEN Signed(x.neg, NatAdd(x.mag, y.mag))
    ELSE IF NatCmp(x.mag, y.mag) >= 0 THEN Signed(x.neg, NatSub(x.mag, y.mag))
    ELSE Signed(y.neg, NatSub(y.mag, x.mag))

SignedMul(x, k) == Signed(x.neg, NatMul(x.mag, k))

----------------------------------------------------------------------------
(* int(text) and float(text)                                               *)

\* the digits of a text of digits, as a natural
DigitsOf(body) == NatNorm([i \in 1..Len(body) |-> DigitVal(body[i])])

HasSign(t) == t # <<>> /\ t[1] \in {"+", "-"}

Unsigned(t) == IF HasSign(t) THEN Tail(t) ELSE t

IsNeg(t) == t # <<>> /\ t[1] = "-"

\* s is the text given, t the text stripped
IntOf(s, t) ==
    IF Unsigned(t) # <<>> /\ AllDigits(Unsigned(t))
    THEN Ok(Signed(IsNeg(t), DigitsOf(Unsigned(t))))
    ELSE Raise("ValueError", "invalid literal for int() with base 10", s)

\* int(s): surrounding whitespace stripped, an optional sign, one or more digits
PyInt(s) == IntOf(s, Strip(s))

\* A float is value = (-1)^neg * mag / 10^scale, mag a natural as above.
Dec(neg, mag, scale) == [neg |-> neg /\ mag # <<>>, mag |-> mag, scale |-> scale]

\* parts is the unsigned text split at the point
FloatOf(s, neg, parts) ==
    IF /\ Len(parts) <= 2
       /\ \A k \in 1..Len(parts) : AllDigits(parts[k])
       /\ \E k \in 1..Len(parts) : parts[k] # <<>>
    THEN Ok(Dec(neg, DigitsOf(IF Len(parts) = 1 THEN parts[1] ELSE parts[1] \o parts[2]),
                IF Len(parts) = 1 THEN 0 ELSE Len(parts[2])))
    ELSE Raise("ValueError", "could not convert string to float", s)

FloatOfStripped(s, t) == FloatOf(s, IsNeg(t), Split(Unsigned(t), "."))

\* float(s): surrounding whitespace stripped, an optional sign, then digits with
\* at most one point and at least one digit.  (The texts of this model hold no
\* letter of an exponent, "inf" or "nan".)
PyFloat(s) == FloatOfStripped(s, Strip(s))

\* 2^1024 - 2^970: the least integer whose conversion to a double overflows
FloatOverflowAt ==
    <<1,7,9,7,6,9,3,1,3,4,8,6,2,3,1,5,8,0,7,9,3,7,2,8,9,7,1,4,0,5,3,0,3,4,1,5,0,7,9,9,
      3,4,1,3,2,7,1,0,0,3,7,8,2,6,9,3,6,1,7,3,7,7,8,9,8,0,4,4,4,9,6,8,2,9,2,7,6,4,7,5,
      0,9,4,6,6,4,9,0,1,7,9,7,7,5,8,7,2,0,7,0,9,6,3,3,0,2,8,6,4,1,6,6,9,2,8,8,7,9,1,0,
      9,4,6,5,5,5,5,4,7,8,5,1,9,4,0,4,0,2,6,3,0,6,5,7,4,8,8,6,7,1,5,0,5,8,2,0,6,8,1,9,
      0,8,9,0,2,0,0,0,7,0,8,3,8,3,6,7,6,2,7,3,8,5,4,8,4,5,8,1,7,7,1,1,5,3,1,7,6,4,4,7,
      5,7,3,0,2,7,0,0,6,9,8,5,5,5,7,1,3,6,6,9,5,9,6,2,2,8,4,2,9,1,4,8,1,9,8,6,0,8,3,4,
      9,3,6,4,7,5,2,9,2,7,1,9,0,7,4,1,6,8,4,4,4,3,6,5,5,1,0,7,0,4,3,4,2,7,1,1,5,5,9,6,
      9,9,5,0,8,0,9,3,0,4,2,8,8,0,1,7,7,9,0,4,1,7,4,4,9,7,7,9,2>>

\* the implicit int -> float conversion of int + float
IntToFloat(n) ==
    IF NatCmp(n.mag, FloatOverflowAt) >= 0
    THEN Raise("OverflowError", "int too large to convert to float", <<>>)
    ELSE Ok(Dec(n.neg, n.mag, 0))

\* mag * 10^k
Scale(mag, k) == IF mag = <<>> THEN <<>> ELSE mag \o Repeat(0, k)

DecOf(z, scale) == Dec(z.neg, z.mag, scale)

\* x + y with both brought to k fraction digits
FloatAddAt(x, y, k) ==
    DecOf(SignedAdd(Signed(x.neg, Scale(x.mag, k - x.scale)),
                    Signed(y.neg, Scale(y.mag, k - y.scale))), k)

\* float + float, exact
FloatAdd(x, y) == FloatAddAt(x, y, IF x.scale >= y.scale THEN x.scale ELSE y.scale)

\* str(float) in positional notation: at least one digit on each side of the
\* point, no trailing zeros after the first fraction digit.  (Python switches
\* to exponent notation from 1e16 and below 1e-4; the durations of this model
\* stay inside that range.)
FloatStr(x) ==
    LET m     == Repeat(0, x.scale + 1 - Len(x.mag)) \o x.mag
        ip    == SubSeq(m, 1, Len(m) - x.scale)
        fp    == SubSeq(m, Len(m) - x.scale + 1, Len(m))
        nz    == {i \in 1..Len(fp) : fp[i] # 0}
        last  == IF nz = {} THEN 1 ELSE CHOOSE i \in nz : \A j \in nz : j <= i
        fr    == IF fp = <<>> THEN <<0>> ELSE SubSeq(fp, 1, last)
    IN  (IF x.neg THEN <<"-">> ELSE <<>>)
        \o [i \in 1..Len(ip) |-> DigitChar(ip[i])] \o <<".">>
        \o [i \in 1..Len(fr) |-> DigitChar(fr[i])]

----------------------------------------------------------------------------
(* Timezones (normalize.py lines 11-14), in whole hours *)

pacific_offset == -8

eastern_offset == -5

----------------------------------------------------------------------------
(* Small numbers as text *)

\* the value of a text of at most two digits
SmallVal(tok) ==
    IF Len(tok) = 1 THEN DigitVal(tok[1]) ELSE 10 * DigitVal(tok[1]) + DigitVal(tok[2])

\* n >= 0 in decimal, zero-padded to at least w characters
Pad(n, w) ==
    LET d4 == <<DigitChar((n \div 1000) % 10), DigitChar((n \div 100) % 10),
                DigitChar((n \div 10) % 10), DigitChar(n % 10)>>
    IN  SubSeq(d4, 5 - w, 4)

\* one or two digits with a value in the range
TokIn(tok, range) == AllDigits(tok) /\ SmallVal(tok) \in range

\* the number of spaces from index from on
SpaceRun(s, from) ==
    LET stop == {i \in from..Len(s) : ~IsSpace(s[i])}
    IN  IF stop = {} THEN Len(s) + 1 - from
        ELSE (CHOOSE i \in stop : \A j \in stop : i <= j) - from

IsLeap(y) == (y % 4 = 0 /\ y % 100 # 0) \/ y % 400 = 0

DaysIn(y, m) ==
    IF m = 2 THEN (IF IsLeap(y) THEN 29 ELSE 28)
    ELSE IF m \in {4, 6, 9, 11} THEN 30 ELSE 31

----------------------------------------------------------------------------
(* datetime.strptime(timestamp, '%m/%d/%y %I:%M:%S %p')                    *)
(* The format is matched directive by directive from the start of the      *)
(* text, as the regular expression strptime builds from it does: a         *)
(* numeric directive takes two digits if the rest then matches, else one;  *)
(* a space in the format takes one or more spaces.                         *)

TsFormat == <<"m", "/", "d", "/", "y", " ", "I", ":", "M", ":", "S", " ", "p">>

NoMatch == [t |-> "nomatch"]

\* the values a numeric directive admits
Range(d) == CASE d = "m" -> 1..12
              [] d = "d" -> 1..31
              [] d = "I" -> 1..12
              [] d = "M" -> 0..59
              [] d = "S" -> 0..61

Tok(s, pos, n) == SubSeq(s, pos, pos + n - 1)

RECURSIVE Match(_, _, _, _)

\* the first alternative of n characters whose rest matches, then those after it
Try(s, pos, k, acc, n, rest) ==
    IF pos + n - 1 <= Len(s) /\ TokIn(Tok(s, pos, n), Range(TsFormat[k]))
    THEN LET r == Match(s, pos + n, k + 1, Append(acc, SmallVal(Tok(s, pos, n))))
         IN  IF r.t = "ok" THEN r ELSE rest
    ELSE rest

\* %d also admits a space and one digit from 1 to 9
TryPadded(s, pos, k, acc) ==
    IF TsFormat[k] = "d" /\ pos + 1 <= Len(s) /\ s[pos] = " "
       /\ IsDigit(s[pos + 1]) /\ s[pos + 1] # "0"
    THEN Match(s, pos + 2, k + 1, Append(acc, DigitVal(s[pos + 1])))
    ELSE NoMatch

\* the match of directives k.. against s from pos on; acc holds the values read
Match(s, pos, k, acc) ==
    IF k > Len(TsFormat) THEN [t |-> "ok", end |-> pos, vals |-> acc]
    ELSE IF TsFormat[k] \in {"/", ":"}
    THEN IF pos <= Len(s) /\ s[pos] = TsFormat[k] THEN Match(s, pos + 1, k + 1, acc)
         ELSE NoMatch
    ELSE IF TsFormat[k] = " "
    THEN IF SpaceRun(s, pos) >= 1 THEN Match(s, pos + SpaceRun(s, pos), k + 1, acc)
         ELSE NoMatch
    ELSE IF TsFormat[k] = "y"
    THEN IF pos + 1 <= Len(s) /\ AllDigits(Tok(s, pos, 2))
         THEN Match(s, pos + 2, k + 1, Append(acc, SmallVal(Tok(s, pos, 2))))
         ELSE NoMatch
    ELSE IF TsFormat[k] = "p"
    THEN IF pos + 1 <= Len(s) /\ Upper(s[pos]) \in {"A", "P"} /\ Upper(s[pos + 1]) = "M"
         THEN Match(s, pos + 2, k + 1, Append(acc, IF Upper(s[pos]) = "P" THEN 12 ELSE 0))
         ELSE NoMatch
    ELSE Try(s, pos, k, acc, 2, Try(s, pos, k, acc, 1, TryPadded(s, pos, k, acc)))

\* the naive datetime of the values read: month, day, year, hour, minute,
\* second, and 12 for pm or 0 for am
DateTimeOf(v) ==
    [year   |-> IF v[3] <= 68 THEN 2000 + v[3] ELSE 1900 + v[3],
     month  |-> v[1],
     day    |-> v[2],
     hour   |-> (v[4] % 12) + v[7],
     minute |-> v[5],
     second |-> v[6]]

Checked(dt) ==
    IF dt.day > DaysIn(dt.year, dt.month)
    THEN Raise("ValueError", "day is out of range for month", <<>>)
    ELSE IF dt.second > 59
    THEN Raise("ValueError", "second must be in 0..59", <<>>)
    ELSE Ok(dt)

Matched(s, found) ==
    IF found.t # "ok"
    THEN Raise("ValueError", "time data does not match format", s)
    ELSE IF found.end <= Len(s)
    THEN Raise("ValueError", "unconverted data remains", SubSeq(s, found.end, Len(s)))
    ELSE Checked(DateTimeOf(found.vals))

strptime(s) == Matched(s, Match(s, 1, 1, <<>>))

\* dt.replace(tzinfo=from).astimezone(to): the same instant at another offset
\* (offsets in whole hours, less than a day apart)
astimezone(dt, from, to) ==
    LET h    == dt.hour + (to - from)
        fwd  == h >= 24
        back == h < 0
        last == dt.day = DaysIn(dt.year, dt.month)
        pm   == IF dt.month = 1 THEN 12 ELSE dt.month - 1
        py   == IF dt.month = 1 THEN dt.year - 1 ELSE dt.year
    IN  IF fwd THEN
            [dt EXCEPT !.hour  = h - 24,
                       !.day   = IF last THEN 1 ELSE dt.day + 1,
                       !.month = IF ~last THEN dt.month
                                 ELSE IF dt.month = 12 THEN 1 ELSE dt.month + 1,
                       !.year  = IF last /\ dt.month = 12 THEN dt.year + 1 ELSE dt.year]
        ELSE IF back THEN
            [dt EXCEPT !.hour  = h + 24,
                       !.day   = IF dt.day = 1 THEN DaysIn(py, pm) ELSE dt.day - 1,
                       !.month = IF dt.day = 1 THEN pm ELSE dt.month,
                       !.year  = IF dt.day = 1 THEN py ELSE dt.year]
        ELSE [dt EXCEPT !.hour = h]

\* datetime.isoformat() of an aware datetime without microseconds
isoformat(dt, offset) ==
    LET mag == IF offset < 0 THEN -offset ELSE offset
    IN  Pad(dt.year, 4) \o <<"-">> \o Pad(dt.month, 2) \o <<"-">> \o Pad(dt.day, 2)
        \o <<"T">> \o Pad(dt.hour, 2) \o <<":">> \o Pad(dt.minute, 2)
        \o <<":">> \o Pad(dt.second, 2)
        \o <<IF offset < 0 THEN "-" ELSE "+">> \o Pad(mag, 2) \o <<":", "0", "0">>

----------------------------------------------------------------------------
(* The field normalizers *)

clean_address(address) ==
    IF Contains(address, ",") THEN <<"\"">> \o address \o <<"\"">> ELSE address

WarnPrefix == "WARN: row will be omitted due to invalid input format: "

\* the line print_error writes to stderr: the prefix and str(error)
print_error(error) == [prefix |-> WarnPrefix, what |-> error.what, arg |-> error.arg]

\* ToEastern with the two offsets exchanged
ToEasternSwapped(py_timestamp) ==
    IF ~IsOk(py_timestamp) THEN py_timestamp
    ELSE Ok(isoformat(astimezone(py_timestamp.v, eastern_offset, pacific_offset),
                      eastern_offset))

\* lines 33-35 on the datetime that line 32 parsed
ToEastern(py_timestamp) ==
    IF ~IsOk(py_timestamp) THEN py_timestamp
    ELSE Ok(isoformat(astimezone(py_timestamp.v, pacific_offset, eastern_offset),
                      eastern_offset))

format_timestamp(timestamp) == ToEastern(strptime(timestamp))

\* validate_zip that keeps the last 5 characters of a longer text
validate_zip_truncating(zip_code) ==
    IF ~IsOk(PyInt(zip_code)) THEN PyInt(zip_code)
    ELSE IF Len(zip_code) < 5 THEN Ok(Repeat("0", 5 - Len(zip_code)) \o zip_code)
    ELSE Ok(SubSeq(zip_code, Len(zip_code) - 4, Len(zip_code)))

validate_zip(zip_code) ==
    LET parsed     == PyInt(zip_code)
        add_zeroes == 5 - Len(zip_code)
    IN  IF ~IsOk(parsed) THEN parsed
        ELSE IF add_zeroes # 0 THEN Ok(Repeat("0", add_zeroes) \o zip_code)
        ELSE Ok(zip_code)

format_full_name(full_name) == [i \in 1..Len(full_name) |-> Upper(full_name[i])]

\* line 58, the last addition: the integer sum, converted to a float, plus the seconds
AddSeconds(whole, s) == IF ~IsOk(whole) THEN whole ELSE Ok(FloatAdd(whole.v, s.v))

\* line 58 on the parsed parts, in the order Python evaluates it
TotalSeconds(h, m, s) ==
    IF ~IsOk(h) THEN h
    ELSE IF ~IsOk(m) THEN m
    ELSE IF ~IsOk(s) THEN s
    ELSE AddSeconds(IntToFloat(SignedAdd(SignedMul(h.v, 3600), SignedMul(m.v, 60))), s)

\* line 57: the parts are unpacked into exactly three names
Unpack(parts) ==
    IF Len(parts) < 3
    THEN Raise("ValueError", "not enough values to unpack (expected 3)", Len(parts))
    ELSE IF Len(parts) > 3
    THEN Raise("ValueError", "too many values to unpack (expected 3)", <<>>)
    ELSE TotalSeconds(PyInt(parts[1]), PyInt(parts[2]), PyFloat(parts[3]))

convert_duration(duration) == Unpack(Split(duration, ":"))

get_total_duration(foo_duration, bar_duration) == FloatAdd(foo_duration, bar_duration)

----------------------------------------------------------------------------
(* clean_and_normalize_row *)

IndexError == Raise("IndexError", "list index out of range", <<>>)

\* Lines with the input's own TotalDuration kept
LinesKeepTotal(row, ts, zip, foo, bar) ==
    IF Len(row) < 1 THEN IndexError
    ELSE IF ~IsOk(ts) THEN ts
    ELSE IF Len(row) < 3 THEN IndexError
    ELSE IF ~IsOk(zip) THEN zip
    ELSE IF Len(row) < 5 THEN IndexError
    ELSE IF ~IsOk(foo) THEN foo
    ELSE IF Len(row) < 6 THEN IndexError
    ELSE IF ~IsOk(bar) THEN bar
    ELSE IF Len(row) < 8 THEN IndexError
    ELSE Ok(<<ts.v, clean_address(row[2]), zip.v, format_full_name(row[4]),
              FloatStr(foo.v), FloatStr(bar.v), row[7], row[8]>>)

\* Lines with BarDuration converted before FooDuration
LinesBarFirst(row, ts, zip, foo, bar) ==
    IF Len(row) < 1 THEN IndexError
    ELSE IF ~IsOk(ts) THEN ts
    ELSE IF Len(row) < 3 THEN IndexError
    ELSE IF ~IsOk(zip) THEN zip
    ELSE IF Len(row) < 6 THEN IndexError
    ELSE IF ~IsOk(bar) THEN bar
    ELSE IF ~IsOk(foo) THEN foo
    ELSE IF Len(row) < 8 THEN IndexError
    ELSE Ok(<<ts.v, clean_address(row[2]), zip.v, format_full_name(row[4]),
              FloatStr(foo.v), FloatStr(bar.v),
              FloatStr(get_total_duration(foo.v, bar.v)), row[8]>>)

\* The try block, lines 84-96, given what each normalizer makes of its column:
\* the first statement to raise ends it.
Lines(row, ts, zip, foo, bar) ==
    IF Len(row) < 1 THEN IndexError
    ELSE IF ~IsOk(ts) THEN ts
    ELSE IF Len(row) < 2 THEN IndexError
    ELSE IF Len(row) < 3 THEN IndexError
    ELSE IF ~IsOk(zip) THEN zip
    ELSE IF Len(row) < 4 THEN IndexError
    ELSE IF Len(row) < 5 THEN IndexError
    ELSE IF ~IsOk(foo) THEN foo
    ELSE IF Len(row) < 6 THEN IndexError
    ELSE IF ~IsOk(bar) THEN bar
    ELSE IF Len(row) < 8 THEN IndexError
    ELSE Ok(<<ts.v, clean_address(row[2]), zip.v, format_full_name(row[4]),
              FloatStr(foo.v), FloatStr(bar.v),
              FloatStr(get_total_duration(foo.v, bar.v)), row[8]>>)

TryBody(row) ==
    Lines(row, format_timestamp(row[1]), validate_zip(row[3]),
          convert_duration(row[5]), convert_duration(row[6]))

\* The except clause, lines 97-98.  What the call does: the list it returns
\* ("row"), None after one line on stderr ("none"), or an exception that the
\* clause does not catch ("raise").
Except(body) ==
    IF IsOk(body)
    THEN [t |-> "row", row |-> body.v, printed |-> <<>>, exc |-> ""]
    ELSE IF body.exc = "ValueError"
    THEN [t |-> "none", row |-> <<>>, printed |-> <<print_error(body)>>, exc |-> ""]
    ELSE [t |-> "raise", row |-> <<>>, printed |-> <<>>, exc |-> body.exc]

clean_and_normalize_row(row) == Except(TryBody(row))

\* if normalized_data:
Truthy(r) == r.t = "row" /\ r.row # <<>>

----------------------------------------------------------------------------
(* Inputs *)

MaxRows == 2

MaxZipLen == 5

MaxDurLen == 5

\* every text over the alphabet A of length at most n
Texts(A, n) == UNION {[1..k -> A] : k \in 0..n}

TsExample == <<"1", "0", "/", "2", "/", "0", "2", " ", "1", "0", ":", "0", "0", ":", "0", "0", " ", "A", "M">>

TsNewYear == <<"1", "2", "/", "3", "1", "/", "9", "9", " ", "1", "1", ":", "0", "0", ":", "0", "0", " ", "P", "M">>

FooExample == <<"1", ":", "0", "2", ":", "0", "3", ".", "5">>

BarExample == <<"0", ":", "0", "0", ":", "0", "1", ".", "0">>

\* an hours field of 306 digits: 10^305 hours
HugeDuration == <<"1">> \o Repeat("0", 305) \o <<":", "0", ":", "0">>

Timestamps == {TsExample, TsNewYear, <<"x">>}

Addresses == {<<"a">>, <<"a", ",", "b">>, <<"a", "\"", ",", "b">>}

Zips == {<<"1", "2", "3">>, <<"1", "2", "3", "4", "5">>, <<"x">>}

Names == {<<"a", "b">>}

FooDurations == {FooExample, <<"1", ":", "2">>, <<"x", ":", "0", ":", "0">>, HugeDuration}

BarDurations == {BarExample, <<"x">>}

Totals == {<<"x">>, <<"9">>}

NotesTexts == {<<"n">>, <<"a", ",", "b">>, <<>>}

Columns == <<Timestamps, Addresses, Zips, Names, FooDurations, BarDurations, Totals,
             NotesTexts>>

\* every row of 8 fields over the column texts
FullRows ==
    {<<a, b, c, d, e, f, g, h>> :
        a \in Timestamps, b \in Addresses, c \in Zips, d \in Names,
        e \in FooDurations, f \in BarDurations, g \in Totals, h \in NotesTexts}

GoodRow == <<TsExample, <<"a">>, <<"1", "2", "3">>, <<"a", "b">>, FooExample, BarExample,
             <<"x">>, <<"n">>>>

\* The rows the file loop is run on: the good row with one column replaced,
\* rows with two bad columns, and rows of fewer than 8 fields.
FileRows ==
    UNION {{[GoodRow EXCEPT ![i] = v] : v \in Columns[i]} : i \in 1..8}
    \cup {[GoodRow EXCEPT ![1] = <<"x">>, ![3] = <<"x">>],
          [GoodRow EXCEPT ![3] = <<"x">>, ![6] = <<"x">>],
          [GoodRow EXCEPT ![5] = <<"1", ":", "2">>, ![6] = <<"x">>],
          [GoodRow EXCEPT ![5] = HugeDuration, ![6] = <<"x">>]}
    \cup {SubSeq(GoodRow, 1, k) : k \in 0..7}
    \cup {<<<<"x">>>>}

Headers ==
    {<<<<"T">>, <<"A">>, <<"Z">>, <<"N">>, <<"F">>, <<"B">>, <<"S">>, <<"O">>>>,
     <<<<"x">>>>,
     <<<<"a", ",", "b">>, <<>>>>,
     <<>>}

TsInputs ==
    {m \o <<"/">> \o d \o <<"/">> \o y \o <<" ">> \o h \o <<":">> \o mi \o <<":", "0", "0", " ">> \o p :
        m  \in {<<"1">>, <<"1", "2">>, <<"1", "3">>, <<"2">>},
        d  \in {<<"1">>, <<"3", "1">>, <<"2", "9">>, <<"0">>},
        y  \in {<<"0", "0">>, <<"9", "9">>, <<"6", "8">>, <<"6", "9">>, <<"1">>},
        h  \in {<<"1", "2">>, <<"9">>, <<"1", "0">>, <<"0">>},
        mi \in {<<"0">>, <<"5", "9">>, <<"6", "0">>},
        p  \in {<<"A", "M">>, <<"P", "M">>, <<"p", "m">>, <<"X", "M">>}}
    \cup Timestamps

\* every text of digits, letters, signs and blanks up to MaxZipLen characters,
\* and longer ones of each kind
ZipInputs ==
    Texts({"1", "x", "-", " "}, MaxZipLen)
    \cup Zips
    \cup {<<"1", "2", "3", "4", "5", "6">>, <<"-", "1", "2", "3", "4", "5", "6">>,
          <<" ", "1", "2", "3", "4", "5", " ">>, <<"1", "2", "3", "4", "5", "x">>}

DurInputs ==
    Texts({"1", ":", ".", "x"}, MaxDurLen)
    \cup FooDurations
    \cup BarDurations
    \cup {<<"-", "1", ":", "1", ":", "1">>, <<"1", ":", "-", "1", ":", "-", "1", ".", "5">>,
          <<"1", ":", "1", ":", "-">>, <<" ", "1", ":", "1", " ", ":", "1", " ">>,
          <<"1", ":", "1", ":", "1", ":", "1">>}

----------------------------------------------------------------------------
(* read_and_clean_file *)

NoCall == [fn |-> "", arg |-> <<>>, res |-> Ok(<<>>)]

Init ==
    /\ pc = "start"
    /\ header = <<>>
    /\ stdout = <<>>
    /\ stderr = <<>>
    /\ exc = ""
    /\ log = <<>>
    /\ call = NoCall

\* PrintHeader with the header handled as a data row
PrintHeaderNormalized(h) ==
    /\ pc = "start"
    /\ header' = h
    /\ stdout' = IF Truthy(clean_and_normalize_row(h))
                 THEN Append(stdout, Join(<<",">>, clean_and_normalize_row(h).row))
                 ELSE stdout
    /\ stderr' = stderr \o clean_and_normalize_row(h).printed
    /\ pc' = "rows"
    /\ UNCHANGED <<exc, log, call>>

\* lines 111-113: the first row is joined and printed
PrintHeader(h) ==
    /\ pc = "start"
    /\ header' = h
    /\ stdout' = Append(stdout, Join(<<",">>, h))
    /\ pc' = "rows"
    /\ UNCHANGED <<stderr, exc, log, call>>

\* line 111 on an input without rows: next() raises StopIteration
EmptyInput ==
    /\ pc = "start"
    /\ pc' = "crashed"
    /\ exc' = "StopIteration"
    /\ UNCHANGED <<header, stdout, stderr, log, call>>

\* Turn with the row's line put before the lines already written
TurnPrepend(row, normalized_data) ==
    /\ pc = "rows"
    /\ Len(log) < MaxRows
    /\ stderr' = stderr \o normalized_data.printed
    /\ stdout' = IF Truthy(normalized_data)
                 THEN <<Join(<<",">>, normalized_data.row)>> \o stdout
                 ELSE stdout
    /\ IF normalized_data.t = "raise"
       THEN pc' = "crashed" /\ exc' = normalized_data.exc
       ELSE pc' = "rows" /\ exc' = exc
    /\ log' = Append(log, [row |-> row,
                           outBefore |-> Len(stdout), outAfter |-> Len(stdout'),
                           errBefore |-> Len(stderr), errAfter |-> Len(stderr')])
    /\ UNCHANGED <<header, call>>

\* lines 116-117 and the loop's next turn, given what line 115 returned or raised
Turn(row, normalized_data) ==
    /\ pc = "rows"
    /\ Len(log) < MaxRows
    /\ stderr' = stderr \o normalized_data.printed
    /\ stdout' = IF Truthy(normalized_data)
                 THEN Append(stdout, Join(<<",">>, normalized_data.row))
                 ELSE stdout
    /\ IF normalized_data.t = "raise"
       THEN pc' = "crashed" /\ exc' = normalized_data.exc
       ELSE pc' = "rows" /\ exc' = exc
    /\ log' = Append(log, [row |-> row,
                           outBefore |-> Len(stdout), outAfter |-> Len(stdout'),
                           errBefore |-> Len(stderr), errAfter |-> Len(stderr')])
    /\ UNCHANGED <<header, call>>

\* lines 114-117: one turn of the loop on the next row of the input
ProcessRow(row) == Turn(row, clean_and_normalize_row(row))

\* the loop ends when the input has no more rows
EndOfInput ==
    /\ pc = "rows"
    /\ pc' = "done"
    /\ UNCHANGED <<header, stdout, stderr, exc, log, call>>

Next ==
    \/ \E h \in Headers : PrintHeader(h)
    \/ EmptyInput
    \/ \E row \in FileRows : ProcessRow(row)
    \/ EndOfInput

Spec == Init /\ [][Next]_vars

----------------------------------------------------------------------------
(* The normalizers called directly, once, on one argument *)

CallFormatTimestamp(s) ==
    /\ call = NoCall
    /\ call' = [fn |-> "format_timestamp", arg |-> s, res |-> format_timestamp(s)]
    /\ UNCHANGED <<pc, header, stdout, stderr, exc, log>>

CallValidateZip(s) ==
    /\ call = NoCall
    /\ call' = [fn |-> "validate_zip", arg |-> s, res |-> validate_zip(s)]
    /\ UNCHANGED <<pc, header, stdout, stderr, exc, log>>

CallConvertDuration(s) ==
    /\ call = NoCall
    /\ call' = [fn |-> "convert_duration", arg |-> s, res |-> convert_duration(s)]
    /\ UNCHANGED <<pc, header, stdout, stderr, exc, log>>

CallCleanRow(row) ==
    /\ call = NoCall
    /\ call' = [fn |-> "clean_and_normalize_row", arg |-> row,
                res |-> clean_and_normalize_row(row)]
    /\ UNCHANGED <<pc, header, stdout, stderr, exc, log>>

NextFn ==
    \/ \E s \in TsInputs : CallFormatTimestamp(s)
    \/ \E s \in ZipInputs : CallValidateZip(s)
    \/ \E s \in DurInputs : CallConvertDuration(s)
    \/ \E row \in FullRows : CallCleanRow(row)

SpecFn == Init /\ [][NextFn]_vars

----------------------------------------------------------------------------
(* csv.reader on one line of text (default dialect): the number of fields  *)

\* the least index >= from at which s holds c, or Len(s) + 1
NextAt(s, c, from) ==
    LET at == {i \in from..Len(s) : s[i] = c}
    IN  IF at = {} THEN Len(s) + 1 ELSE CHOOSE i \in at : \A j \in at : i <= j

\* the number of consecutive quotes that end at q, the opening quote at p excluded
QuoteRun(s, p, q) ==
    LET stop == {i \in p..q : s[i] # "\"" \/ i = p}
    IN  q - (CHOOSE i \in stop : \A j \in stop : j <= i)

\* A field that opens with a quote at p is closed by the first quote after p
\* that ends an odd run of quotes; without one it runs to the end of the line.
ClosingQuote(s, p) ==
    LET cl == {q \in (p + 1)..Len(s) :
                  /\ s[q] = "\""
                  /\ (q = Len(s) \/ s[q + 1] # "\"")
                  /\ QuoteRun(s, p, q) % 2 = 1}
    IN  IF cl = {} THEN Len(s) + 1 ELSE CHOOSE q \in cl : \A j \in cl : q <= j

\* the index of the comma that ends the field starting at p, or Len(s) + 1
FieldEnd(s, p) ==
    IF p <= Len(s) /\ s[p] = "\""
    THEN NextAt(s, ",", ClosingQuote(s, p) + 1)
    ELSE NextAt(s, ",", p)

RECURSIVE FieldsFrom(_, _)
FieldsFrom(s, p) ==
    IF FieldEnd(s, p) > Len(s) THEN 1 ELSE 1 + FieldsFrom(s, FieldEnd(s, p) + 1)

CsvFieldCount(line) == IF line = <<>> THEN 0 ELSE FieldsFrom(line, 1)

----------------------------------------------------------------------------
(* What the turns of the loop did, read off the log *)

Emitted(e) == e.outAfter = e.outBefore + 1

Silent(e) == e.outAfter = e.outBefore

Warned(e) == e.errAfter = e.errBefore + 1

Quiet(e) == e.errAfter = e.errBefore

\* the turn of entry i did not end the run
Survived(i) == i < Len(log) \/ pc # "crashed"

\* what the normalizer of a validated column makes of the row's field
Normalized(row, col) ==
    CASE col = 1 -> format_timestamp(row[1])
      [] col = 3 -> validate_zip(row[3])
      [] col = 5 -> convert_duration(row[5])
      [] col = 6 -> convert_duration(row[6])

Validated == {1, 3, 5, 6}

\* a validated column is malformed when its normalizer rejects it with a ValueError
MalformedAt(row, col) ==
    ~IsOk(Normalized(row, col)) /\ Normalized(row, col).exc = "ValueError"

Malformed(row) == \E col \in Validated : MalformedAt(row, col)

WellFormed(row) == \A col \in Validated : IsOk(Normalized(row, col))

----------------------------------------------------------------------------
(* C1 *)

\* C1: every row of 8 fields with a malformed Timestamp, Zip, FooDuration or
\* BarDuration writes no line to stdout and exactly one line, with the WARN
\* prefix, to stderr, and the loop goes on to the next row.
C1_MalformedRowDropped ==
    \A i \in 1..Len(log) :
        (Len(log[i].row) = 8 /\ Malformed(log[i].row)) =>
            /\ Silent(log[i])
            /\ Warned(log[i])
            /\ stderr[log[i].errAfter].prefix = WarnPrefix
            /\ Survived(i)

----------------------------------------------------------------------------
(* C2 *)

\* C2: a row of fewer than 8 fields is dropped like any malformed row: one
\* line on stderr, none on stdout, no exception leaves the row pipeline and
\* the loop goes on.
C2_ShortRowDropped ==
    \A i \in 1..Len(log) :
        Len(log[i].row) < 8 =>
            /\ Silent(log[i])
            /\ Warned(log[i])
            /\ Survived(i)

----------------------------------------------------------------------------
(* C3 *)

\* C3: every row of 8 fields whose four validated columns are well-formed
\* writes exactly one line to stdout, and that line splits back into 8 CSV
\* fields, whatever Address, FullName and Notes hold.
C3_ValidRowKeepsFieldCount ==
    \A i \in 1..Len(log) :
        (Len(log[i].row) = 8 /\ WellFormed(log[i].row)) =>
            /\ Emitted(log[i])
            /\ CsvFieldCount(stdout[log[i].outAfter]) = 8

----------------------------------------------------------------------------
(* C4 *)

TsExampleClaimed == <<"2", "0", "0", "2", "-", "1", "0", "-", "0", "2", "T", "0", "7", ":", "0", "0", ":", "0", "0", "-", "0", "5", ":", "0", "0">>

TsExampleEastern == <<"2", "0", "0", "2", "-", "1", "0", "-", "0", "2", "T", "1", "3", ":", "0", "0", ":", "0", "0", "-", "0", "5", ":", "0", "0">>

\* C4 as stated: "10/2/02 10:00:00 AM" yields "2002-10-02T07:00:00-05:00".
C4_ExampleAsStated ==
    (call.fn = "format_timestamp" /\ call.arg = TsExample) =>
        call.res = Ok(TsExampleClaimed)

\* C4 amended: the text is read at -08:00 and written at -05:00, three hours
\* later on the clock, so "10/2/02 10:00:00 AM" yields
\* "2002-10-02T13:00:00-05:00" and 11 PM on 31 December 1999 yields 2 AM on
\* 1 January 2000; every result carries the offset -05:00.
C4_ExampleEastern ==
    call.fn = "format_timestamp" =>
        /\ call.arg = TsExample => call.res = Ok(TsExampleEastern)
        /\ call.arg = TsNewYear => call.res = Ok(<<"2", "0", "0", "0", "-", "0", "1", "-", "0", "1", "T", "0", "2", ":", "0", "0", ":", "0", "0", "-", "0", "5", ":", "0", "0">>)
        /\ IsOk(call.res) =>
               SubSeq(call.res.v, Len(call.res.v) - 5, Len(call.res.v))
                   = <<"-", "0", "5", ":", "0", "0">>

C4_Witness ==
    /\ call.fn = "format_timestamp"
    /\ call.arg = TsExample
    /\ IsOk(call.res)

----------------------------------------------------------------------------
(* C5 *)

\* C5: whatever the header row holds, its fields joined with "," are the
\* first line of stdout, written once and before any data row is handled;
\* the header is never normalized, never dropped and causes no line on stderr.
C5_HeaderFirstOnce ==
    /\ pc = "start" => stdout = <<>> /\ stderr = <<>> /\ log = <<>>
    /\ (pc # "start" /\ exc # "StopIteration") =>
          /\ Len(stdout) >= 1
          /\ stdout[1] = Join(<<",">>, header)
          /\ \A i \in 1..Len(log) : log[i].outBefore >= 1
          /\ Len(stdout) = 1 + Cardinality({i \in 1..Len(log) : Emitted(log[i])})
          /\ Len(stderr) = Cardinality({i \in 1..Len(log) : Warned(log[i])})

C5_Witness ==
    /\ pc = "done"
    /\ header = <<<<"x">>>>
    /\ stdout[1] = <<"x">>
    /\ Len(log) = MaxRows
    /\ Len(stdout) = 1 + MaxRows

----------------------------------------------------------------------------
(* C6 *)

\* C6: rows are handled in input order, one at a time: each turn starts where
\* the turn before it left stdout and stderr, writes at most one line, to one
\* of the two, and that line is the row's own; nothing is held back,
\* written twice or moved.
C6_InputOrder ==
    /\ \A i \in 1..Len(log) :
          /\ log[i].outBefore = IF i = 1 THEN 1 ELSE log[i - 1].outAfter
          /\ log[i].errBefore = IF i = 1 THEN 0 ELSE log[i - 1].errAfter
          /\ \/ Emitted(log[i]) /\ Quiet(log[i])
             \/ Silent(log[i]) /\ Warned(log[i])
             \/ Silent(log[i]) /\ Quiet(log[i]) /\ ~Survived(i)
          /\ Emitted(log[i]) =>
                stdout[log[i].outAfter]
                    = Join(<<",">>, clean_and_normalize_row(log[i].row).row)
          /\ Warned(log[i]) =>
                <<stderr[log[i].errAfter]>> = clean_and_normalize_row(log[i].row).printed
    /\ log # <<>> =>
          /\ Len(stdout) = log[Len(log)].outAfter
          /\ Len(stderr) = log[Len(log)].errAfter

C6_Witness ==
    /\ Len(log) = 2
    /\ Emitted(log[1]) /\ Emitted(log[2])
    /\ stdout[2] # stdout[3]
    /\ log[1].row[1] = TsNewYear
    /\ log[2].row[1] = TsExample

----------------------------------------------------------------------------
(* C7 *)

\* C7: for a text that parses as an integer, validate_zip returns the text
\* left-padded with "0" to exactly 5 characters when it is shorter than 5, and
\* the text itself, untruncated, when it has 5 or more; it fails, with a
\* ValueError, exactly when the integer parse fails.
C7_ZipPadding ==
    call.fn = "validate_zip" =>
        /\ IsOk(call.res) <=> IsOk(PyInt(call.arg))
        /\ ~IsOk(call.res) => call.res.exc = "ValueError"
        /\ (IsOk(call.res) /\ Len(call.arg) < 5) =>
              /\ Len(call.res.v) = 5
              /\ \A i \in 1..5 :
                    call.res.v[i] = IF i <= 5 - Len(call.arg) THEN "0"
                                    ELSE call.arg[i - (5 - Len(call.arg))]
        /\ (IsOk(call.res) /\ Len(call.arg) >= 5) => call.res.v = call.arg

C7_Witness ==
    /\ call.fn = "validate_zip"
    /\ Len(call.arg) = 6
    /\ call.res = Ok(call.arg)

----------------------------------------------------------------------------
(* C8 *)

\* C8: in a returned row the TotalDuration field is the sum of the two
\* durations computed from FooDuration and BarDuration ("1:02:03.5" and
\* "0:00:01.0" give "3724.5"), and what the call does is the same whatever
\* the input row holds at position 6.
C8_TotalRecomputed ==
    (call.fn = "clean_and_normalize_row" /\ Len(call.arg) = 8) =>
        /\ call.res.t = "row" =>
              call.res.row[7] = FloatStr(FloatAdd(convert_duration(call.arg[5]).v,
                                                  convert_duration(call.arg[6]).v))
        /\ (call.res.t = "row" /\ call.arg[5] = FooExample /\ call.arg[6] = BarExample) =>
              call.res.row[7] = <<"3", "7", "2", "4", ".", "5">>
        /\ \A g \in Totals \cup {FooExample, <<>>} :
              clean_and_normalize_row([call.arg EXCEPT ![7] = g]) = call.res

C8_Witness ==
    /\ call.fn = "clean_and_normalize_row"
    /\ call.arg[5] = FooExample
    /\ call.arg[6] = BarExample
    /\ call.arg[7] = <<"9">>
    /\ call.res.t = "row"
    /\ call.res.row[7] = <<"3", "7", "2", "4", ".", "5">>

----------------------------------------------------------------------------
(* C9 *)

\* the first validated column, in column order, whose normalizer raises
FirstFailing(row) ==
    CHOOSE col \in Validated :
        /\ ~IsOk(Normalized(row, col))
        /\ \A c \in Validated : c < col => IsOk(Normalized(row, c))

\* C9: the columns are normalized in column order and the first failure ends
\* the row: the one line on stderr is that of the first malformed column,
\* whatever the later columns hold, and no row, whole or partial, is returned.
C9_FirstFailureWins ==
    (call.fn = "clean_and_normalize_row" /\ Len(call.arg) = 8) =>
        /\ call.res.t = "row" <=> WellFormed(call.arg)
        /\ (~WellFormed(call.arg) /\ MalformedAt(call.arg, FirstFailing(call.arg))) =>
              call.res = [t |-> "none", row |-> <<>>, exc |-> "",
                          printed |-> <<print_error(
                              Normalized(call.arg, FirstFailing(call.arg)))>>]
        /\ call.res.t = "row" =>
              call.res.row = <<Normalized(call.arg, 1).v, clean_address(call.arg[2]),
                               Normalized(call.arg, 3).v, format_full_name(call.arg[4]),
                               FloatStr(Normalized(call.arg, 5).v),
                               FloatStr(Normalized(call.arg, 6).v),
                               call.res.row[7], call.arg[8]>>

C9_Witness ==
    /\ call.fn = "clean_and_normalize_row"
    /\ MalformedAt(call.arg, 3)
    /\ MalformedAt(call.arg, 5)
    /\ MalformedAt(call.arg, 6)
    /\ IsOk(Normalized(call.arg, 1))
    /\ call.res.t = "none"
    /\ call.res.printed[1].arg = call.arg[3]

----------------------------------------------------------------------------
(* C10 *)

\* the parts of a duration text are three and each parses
ThreeParsedParts(parts) ==
    /\ Len(parts) = 3
    /\ IsOk(PyInt(parts[1]))
    /\ IsOk(PyInt(parts[2]))
    /\ IsOk(PyFloat(parts[3]))

\* C10: convert_duration succeeds exactly when the split on ":" yields three
\* parts of which the first two parse as integers and the third as a number,
\* and every failure is a ValueError, the row-level validation failure.
C10_SucceedsExactlyOnThreeParts ==
    call.fn = "convert_duration" =>
        /\ IsOk(call.res) <=> ThreeParsedParts(Split(call.arg, ":"))
        /\ ~IsOk(call.res) => call.res.exc = "ValueError"

====
